---- MODULE Spec2Model ----
(***************************************************************************)
(* A model of the wellness-check application: the Flask backend            *)
(* (src/backend/app.py: the provider wrapper, the per-day cache, the text  *)
(* extraction and the scoring rule) and the Streamlit session walker       *)
(* (src/frontend/app.py).                                                  *)
(*                                                                         *)
(* A Python str is modelled as a sequence of one-character strings, so     *)
(* that strip, splitlines, lower and the regular expressions are computed  *)
(* character by character as the interpreter computes them.                *)
(***************************************************************************)
EXTENDS Integers, Sequences, FiniteSets, TLC

(***************************************************************************)
(* Python string primitives used by the backend                            *)
(***************************************************************************)

UpperLetters ==
  <<"A","B","C","D","E","F","G","H","I","J","K","L","M",
    "N","O","P","Q","R","S","T","U","V","W","X","Y","Z">>

LowerLetters ==
  <<"a","b","c","d","e","f","g","h","i","j","k","l","m",
    "n","o","p","q","r","s","t","u","v","w","x","y","z">>

\* str.lower() on one character
lower_char(c) ==
  IF \E i \in 1..Len(UpperLetters) : UpperLetters[i] = c
  THEN LowerLetters[CHOOSE i \in 1..Len(UpperLetters) : UpperLetters[i] = c]
  ELSE c

\* str.lower()
lower(s) == [i \in 1..Len(s) |-> lower_char(s[i])]

\* The characters str.strip() removes and the regular expression class \s
\* matches (those of them a TLA+ string can hold).
Whitespace == {" ", "\t", "\n", "\r", "\f"}

\* The line boundaries of str.splitlines() (those a TLA+ string can hold);
\* "\r\n" counts as one boundary.
LineBreaks == {"\n", "\r", "\f"}

\* The characters sanitize_text replaces by a space:
\* [\x00-\x08\x0b-\x0c\x0e-\x1f]; "\f" is \x0c, while \t, \n and \r are kept.
ControlChars == {"\f"}

RECURSIVE lstrip(_, _)
lstrip(s, chars) ==
  IF s # <<>> /\ Head(s) \in chars THEN lstrip(Tail(s), chars) ELSE s

RECURSIVE rstrip(_, _)
rstrip(s, chars) ==
  IF s # <<>> /\ s[Len(s)] \in chars
  THEN rstrip(SubSeq(s, 1, Len(s) - 1), chars)
  ELSE s

\* str.strip(chars): both ends
strip(s, chars) == rstrip(lstrip(s, chars), chars)

\* Index of the first line boundary of s, Len(s) + 1 when there is none
FirstBreak(s) ==
  IF \E i \in 1..Len(s) : s[i] \in LineBreaks
  THEN CHOOSE i \in 1..Len(s) :
         /\ s[i] \in LineBreaks
         /\ \A j \in 1..(i - 1) : s[j] \notin LineBreaks
  ELSE Len(s) + 1

\* str.splitlines(): no line for the empty string, none after a final boundary
RECURSIVE splitlines(_)
splitlines(s) ==
  IF s = <<>> THEN <<>>
  ELSE LET i == FirstBreak(s)
           line == SubSeq(s, 1, i - 1)
           skip == IF i < Len(s) /\ s[i] = "\r" /\ s[i + 1] = "\n" THEN 2 ELSE 1
       IN IF i > Len(s) THEN <<line>>
          ELSE <<line>> \o splitlines(SubSeq(s, i + skip, Len(s)))

\* seq[:n]
Take(seq, n) == SubSeq(seq, 1, IF Len(seq) < n THEN Len(seq) ELSE n)

(***************************************************************************)
(* sanitize_text and generate_with_gemini                                  *)
(***************************************************************************)

\* The default max_len of sanitize_text
DefaultMaxLen == 800

sanitize_text(text, max_len) ==
  IF text = <<>> THEN <<>>
  ELSE LET stripped == strip(text, Whitespace)
           cut == IF Len(stripped) > max_len
                  THEN SubSeq(stripped, 1, max_len)
                  ELSE stripped
       IN [i \in 1..Len(cut) |->
             IF cut[i] \in ControlChars THEN " " ELSE cut[i]]

\* "[AI error: "
AIErrorPrefix == <<"[","A","I"," ","e","r","r","o","r",":"," ">>

\* "[AI error: empty response]"
EmptyResponseError ==
  AIErrorPrefix \o <<"e","m","p","t","y"," ","r","e","s","p","o","n","s","e","]">>

\* f"[AI error: {e}]"
AIError(reason) == AIErrorPrefix \o reason \o <<"]">>

\* One call of the provider. The provider's answer is a record
\*   raises: the call (or reading the response) raised an exception,
\*   reason: str(e) of that exception,
\*   text: response.text (<<>> for None or ""),
\*   candidates: the texts of response.candidates[i].content.parts[0].
generate_with_gemini(response) ==
  IF response.raises THEN AIError(response.reason)
  ELSE LET text == IF response.text = <<>> /\ response.candidates # <<>>
                   THEN response.candidates[1]
                   ELSE response.text
       IN sanitize_text(IF text # <<>> THEN text ELSE EmptyResponseError,
                        DefaultMaxLen)

(***************************************************************************)
(* The fixed fall-back texts                                               *)
(***************************************************************************)

\* U+2014, which a TLA+ string cannot hold, as one character of its own
EmDash == "<U+2014>"

\* "Do you avoid sharing feelings because of judgment?"
DefaultQuestion1 ==
  <<"D","o"," ","y","o","u"," ","a","v","o","i","d"," ","s","h","a",
    "r","i","n","g"," ","f","e","e","l","i","n","g","s"," ","b","e",
    "c","a","u","s","e"," ","o","f"," ","j","u","d","g","m","e","n",
    "t","?">>

\* "Have you ever felt ashamed asking for mental health help?"
DefaultQuestion2 ==
  <<"H","a","v","e"," ","y","o","u"," ","e","v","e","r"," ","f","e",
    "l","t"," ","a","s","h","a","m","e","d"," ","a","s","k","i","n",
    "g"," ","f","o","r"," ","m","e","n","t","a","l"," ","h","e","a",
    "l","t","h"," ","h","e","l","p","?">>

\* "Do you think seeking help is a weakness?"
DefaultQuestion3 ==
  <<"D","o"," ","y","o","u"," ","t","h","i","n","k"," ","s","e","e",
    "k","i","n","g"," ","h","e","l","p"," ","i","s"," ","a"," ","w",
    "e","a","k","n","e","s","s","?">>

\* "In a group study, a friend says 'You are just lazy' when you mention stress."
DefaultScenario ==
  <<"I","n"," ","a"," ","g","r","o","u","p"," ","s","t","u","d","y",
    ","," ","a"," ","f","r","i","e","n","d"," ","s","a","y","s"," ",
    "'","Y","o","u"," ","a","r","e"," ","j","u","s","t"," ","l","a",
    "z","y","'"," ","w","h","e","n"," ","y","o","u"," ","m","e","n",
    "t","i","o","n"," ","s","t","r","e","s","s",".">>

\* "I hear you — it takes courage to share this."
DefaultReflection ==
  <<"I"," ","h","e","a","r"," ","y","o","u"," ",EmDash," ","i","t"," ",
    "t","a","k","e","s"," ","c","o","u","r","a","g","e"," ","t","o",
    " ","s","h","a","r","e"," ","t","h","i","s",".">>

\* "Try writing your thoughts in a journal for 5 minutes today."
DefaultTip ==
  <<"T","r","y"," ","w","r","i","t","i","n","g"," ","y","o","u","r",
    " ","t","h","o","u","g","h","t","s"," ","i","n"," ","a"," ","j",
    "o","u","r","n","a","l"," ","f","o","r"," ","5"," ","m","i","n",
    "u","t","e","s"," ","t","o","d","a","y",".">>

DefaultQuestions == <<DefaultQuestion1, DefaultQuestion2, DefaultQuestion3>>

(***************************************************************************)
(* Question and scenario extraction (get_questions, get_scenario)          *)
(***************************************************************************)

\* The characters of line.strip("0123456789. -")
MarkerChars == {"0","1","2","3","4","5","6","7","8","9","."," ","-"}

\* A question is kept when len(q) > 5
MinQuestionLen == 5

\* The number of questions kept, [:3], and required, len(questions) < 3
NumQuestions == 3

\* if line.strip()
NonBlank(line) == strip(line, Whitespace) # <<>>

\* len(q) > 5
LongEnough(q) == Len(q) > MinQuestionLen

\* A variant of MarkerStrippedLines that removes leading markers only
\* (lstrip in place of strip)
MarkerStrippedLinesLeading(text) ==
  LET kept == SelectSeq(splitlines(text), NonBlank)
  IN [i \in 1..Len(kept) |-> lstrip(kept[i], MarkerChars)]

\* lines = [line.strip("0123456789. -") for line in text.splitlines()
\*          if line.strip()]
MarkerStrippedLines(text) ==
  LET kept == SelectSeq(splitlines(text), NonBlank)
  IN [i \in 1..Len(kept) |-> strip(kept[i], MarkerChars)]

\* questions = [q for q in lines if len(q) > 5][:3]
UsableQuestions(text) ==
  Take(SelectSeq(MarkerStrippedLines(text), LongEnough), NumQuestions)

\* A faulty variant of extract_questions: a partial list is kept
extract_questions_partial(text) == UsableQuestions(text)

\* The questions get_questions stores for the provider text
extract_questions(text) ==
  LET questions == UsableQuestions(text)
  IN IF Len(questions) < NumQuestions THEN DefaultQuestions ELSE questions

\* The scenario get_scenario stores for the provider text
extract_scenario(text) ==
  LET stripped == strip(text, Whitespace)
      scenario == IF stripped # <<>> THEN splitlines(stripped)[1] ELSE <<>>
  IN IF scenario = <<>> THEN DefaultScenario ELSE scenario

(***************************************************************************)
(* stigma_score                                                            *)
(***************************************************************************)

\* ("yes", "often", "always", "agree", "defend")
StrongAnswers ==
  { <<"y","e","s">>, <<"o","f","t","e","n">>, <<"a","l","w","a","y","s">>,
    <<"a","g","r","e","e">>, <<"d","e","f","e","n","d">> }

\* ("maybe", "sometimes")
MildAnswers ==
  { <<"m","a","y","b","e">>, <<"s","o","m","e","t","i","m","e","s">> }

\* for a in answers: ... score += 2 / score += 1
RECURSIVE score_loop(_, _)
score_loop(answers, score) ==
  IF answers = <<>> THEN score
  ELSE LET s == lower(Head(answers))
       IN score_loop(Tail(answers),
                     IF s \in StrongAnswers THEN score + 2
                     ELSE IF s \in MildAnswers THEN score + 1
                     ELSE score)

\* A faulty variant of level_of: the bands one point too high
level_of_strict(score) ==
  IF score < 2 THEN "Low" ELSE IF score < 4 THEN "Medium" ELSE "High"

\* if score <= 2 ... elif score <= 4 ... else
level_of(score) ==
  IF score <= 2 THEN "Low" ELSE IF score <= 4 THEN "Medium" ELSE "High"

\* The JSON body stigma_score answers with
stigma_score(answers) ==
  LET score == score_loop(answers, 0)
  IN [stigma_level |-> level_of(score), raw_score |-> score]

(***************************************************************************)
(* ask_ai: the two labelled fields of the provider text                    *)
(***************************************************************************)

ReflectionLabel == <<"R","E","F","L","E","C","T","I","O","N">>

TipLabel == <<"T","I","P">>

\* Index of the first character of s at or after i that is not in chars
\* (Len(s) + 1 when there is none): where a greedy \s* stops
SkipWhile(s, i, chars) ==
  IF \E k \in i..Len(s) : s[k] \notin chars
  THEN CHOOSE k \in i..Len(s) :
         /\ s[k] \notin chars
         /\ \A j \in i..(k - 1) : s[j] \in chars
  ELSE Len(s) + 1

\* Where a greedy dot-star that starts at i stops: at the next "\n"
DotStarEnd(s, i) ==
  IF \E k \in i..Len(s) : s[k] = "\n"
  THEN CHOOSE k \in i..Len(s) :
         /\ s[k] = "\n"
         /\ \A j \in i..(k - 1) : s[j] # "\n"
  ELSE Len(s) + 1

\* LABEL\s*: matches at i (re.IGNORECASE); the colon's index, 0 for no match
LabelColonAt(s, i, label) ==
  LET n == Len(label)
  IN IF /\ i + n - 1 <= Len(s)
        /\ \A k \in 1..n : lower_char(s[i + k - 1]) = lower_char(label[k])
     THEN LET c == SkipWhile(s, i + n, Whitespace)
          IN IF c <= Len(s) /\ s[c] = ":" THEN c ELSE 0
     ELSE 0

\* re.search(r"LABEL\s*:\s*( .* )", ai_text, re.IGNORECASE): the leftmost
\* match. found, and group(1): after the colon a greedy \s* (line boundaries
\* included), then every character up to the next "\n" (the dot matches
\* anything but "\n").
label_search(s, label) ==
  IF \E i \in 1..Len(s) : LabelColonAt(s, i, label) # 0
  THEN LET i == CHOOSE i \in 1..Len(s) :
                  /\ LabelColonAt(s, i, label) # 0
                  /\ \A j \in 1..(i - 1) : LabelColonAt(s, j, label) = 0
           c == LabelColonAt(s, i, label)
           from == SkipWhile(s, c + 1, Whitespace)
           to == DotStarEnd(s, from)
       IN [found |-> TRUE, group |-> SubSeq(s, from, to - 1)]
  ELSE [found |-> FALSE, group |-> <<>>]

\* m.group(1).strip() if m else default
field_or_default(s, label, default) ==
  LET m == label_search(s, label)
  IN IF m.found THEN strip(m.group, Whitespace) ELSE default

\* The JSON body ask_ai answers with, for the text generate_with_gemini gave
ask_ai(ai_text) ==
  [ai_reflection |-> field_or_default(ai_text, ReflectionLabel, DefaultReflection),
   ai_tip |-> field_or_default(ai_text, TipLabel, DefaultTip),
   raw_ai |-> ai_text]

(***************************************************************************)
(* The state                                                               *)
(***************************************************************************)

VARIABLES
  date,          \* the calendar day datetime.date.today() answers
  daily_cache,   \* daily_cache: cache key -> entry
  pc,            \* per request thread: where its handler stands
  today,         \* per request thread: the handler's local `today`
  text,          \* per request thread: the handler's local `text`
  found,         \* per request thread: len(questions) after line 64
  misses,        \* history: misses observed so far (provider calls begun)
  calls,         \* history: provider calls made, per cache key
  raced,         \* history: keys missed while another miss was in flight
  last,          \* history: the last response of each endpoint
  h_op,          \* a single request on a fresh process: the operation,
  h_in,          \*   its input (the answers or the provider's response)
  h_out,         \*   and the body returned
  page,          \* st.session_state.page
  ss_stigma_level,   \* st.session_state.stigma_level
  ss_answers,        \* st.session_state.answers
  ss_scenario,       \* st.session_state.scenario
  ss_ai_reflection,  \* st.session_state.ai_reflection
  ss_ai_tip,         \* st.session_state.ai_tip
  ui_event       \* history: the last front-end interaction and its outcome

server_vars == <<date, daily_cache, pc, today, text, found, misses, calls,
                 raced, last>>

handler_vars == <<h_op, h_in, h_out>>

ui_vars == <<page, ss_stigma_level, ss_answers, ss_scenario, ss_ai_reflection,
             ss_ai_tip, ui_event>>

vars == <<date, daily_cache, pc, today, text, found, misses, calls, raced,
          last, h_op, h_in, h_out, page, ss_stigma_level, ss_answers,
          ss_scenario, ss_ai_reflection, ss_ai_tip, ui_event>>

(***************************************************************************)
(* Bounds of the model                                                     *)
(***************************************************************************)

\* Request threads of the Flask server
NumWorkers == 2

\* Calendar days the clock runs through
MaxDay == 2

\* Provider calls in one run (requests that find their entry are not bounded)
MaxCalls == 2

Workers == 1..NumWorkers

Days == 1..MaxDay

(***************************************************************************)
(* What the provider may answer                                            *)
(***************************************************************************)

\* "1. Is it ok?\n2. Do you?\n3. Really?"
GoodList1 ==
  <<"1","."," ","I","s"," ","i","t"," ","o","k","?","\n","2","."," ",
    "D","o"," ","y","o","u","?","\n","3","."," ","R","e","a","l","l",
    "y","?">>

\* "1. Is it ok?\n2. Foo"
ShortList ==
  <<"1","."," ","I","s"," ","i","t"," ","o","k","?","\n","2","."," ",
    "F","o","o">>

\* "quota"
QuotaReason ==
  <<"q","u","o","t","a">>

\* "400 Bad\nRequest was\nrejected"
MultiLineReason ==
  <<"4","0","0"," ","B","a","d","\n","R","e","q","u","e","s","t"," ",
    "w","a","s","\n","r","e","j","e","c","t","e","d">>

\* response.text is t
TextResponse(t) ==
  [raises |-> FALSE, reason |-> <<>>, text |-> t, candidates |-> <<>>]

\* response.text is empty and the candidates hold the texts cs
CandidatesResponse(cs) ==
  [raises |-> FALSE, reason |-> <<>>, text |-> <<>>, candidates |-> cs]

\* the call raises an exception e with str(e) = r
RaisedResponse(r) ==
  [raises |-> TRUE, reason |-> r, text |-> <<>>, candidates |-> <<>>]

\* The outcomes of model.generate_content the server is run against
ProviderResponses ==
  { TextResponse(GoodList1), CandidatesResponse(<<ShortList>>),
    RaisedResponse(QuotaReason), RaisedResponse(MultiLineReason) }

(***************************************************************************)
(* The server: get_questions and get_scenario on the shared daily_cache    *)
(***************************************************************************)

\* No value yet (a local not assigned, a response not sent)
None == "<None>"

\* The local `text` of a handler that has not called the provider: no text
NoText == <<None>>

\* The local `questions` of a handler that has not reached line 64: no length
NotCounted == -1

\* A faulty variant of QuestionsKey: a key that does not hold the date
QuestionsKeyUndated(day) == <<"", 1>>

\* get_questions uses today = str(datetime.date.today()) itself as the key
QuestionsKey(day) == <<"", day>>

\* key = f"scenario-{today}"
ScenarioKey(day) == <<"scenario-", day>>

Endpoints == {"get_questions", "get_scenario"}

\* No response sent yet
NoResponse == [day |-> 0, key |-> <<"", 0>>, body |-> None]

AllKeys == {QuestionsKey(d) : d \in Days} \cup {ScenarioKey(d) : d \in Days}

\* A faulty variant of cache_hit: the cache is never consulted
cache_hit_never(cache, k) == FALSE

\* `key not in daily_cache` is false
cache_hit(cache, k) == k \in DOMAIN cache

\* daily_cache[k] = v
Put(cache, k, v) ==
  [x \in DOMAIN cache \cup {k} |-> IF x = k THEN v ELSE cache[x]]

QuestionSteps == {"q_generate", "q_store", "q_return"}

ScenarioSteps == {"s_generate", "s_store", "s_return"}

\* The cache key of the request thread p is handling
KeyOf(p) ==
  IF pc[p] \in QuestionSteps THEN QuestionsKey(today[p])
  ELSE ScenarioKey(today[p])

\* Another thread has missed key k and has not stored its entry yet
MissInFlight(p, k) ==
  \E q \in Workers \ {p} :
     /\ pc[q] \in {"q_generate", "q_store", "s_generate", "s_store"}
     /\ KeyOf(q) = k

ServerInit ==
  /\ date = 1
  /\ daily_cache = [k \in {} |-> None]
  /\ pc = [p \in Workers |-> "idle"]
  /\ today = [p \in Workers |-> None]
  /\ text = [p \in Workers |-> NoText]
  /\ found = [p \in Workers |-> NotCounted]
  /\ misses = 0
  /\ calls = [k \in AllKeys |-> 0]
  /\ raced = {}
  /\ last = [e \in Endpoints |-> NoResponse]

\* get_questions, lines 53-54: read the date, look the key up
GetQuestionsCheck(p) ==
  /\ pc[p] = "idle"
  /\ today' = [today EXCEPT ![p] = date]
  /\ text' = [text EXCEPT ![p] = NoText]
  /\ IF cache_hit(daily_cache, QuestionsKey(date))
     THEN /\ pc' = [pc EXCEPT ![p] = "q_return"]
          /\ UNCHANGED <<misses, raced>>
     ELSE /\ misses < MaxCalls
          /\ misses' = misses + 1
          /\ pc' = [pc EXCEPT ![p] = "q_generate"]
          /\ raced' = IF MissInFlight(p, QuestionsKey(date))
                      THEN raced \cup {QuestionsKey(date)}
                      ELSE raced
  /\ UNCHANGED <<found, date, daily_cache, calls, last>>
  /\ UNCHANGED <<handler_vars, ui_vars>>

\* get_questions, line 60: the provider call
GetQuestionsGenerate(p, response) ==
  /\ pc[p] = "q_generate"
  /\ text' = [text EXCEPT ![p] = generate_with_gemini(response)]
  /\ calls' = [calls EXCEPT ![KeyOf(p)] = @ + 1]
  /\ pc' = [pc EXCEPT ![p] = "q_store"]
  /\ UNCHANGED <<found, date, daily_cache, today, misses, raced, last>>
  /\ UNCHANGED <<handler_vars, ui_vars>>

\* get_questions, lines 61-83: extract and store; when a statement of the
\* try block raises (the debug print is the one that can), the except
\* branch stores the default questions.
\* `text` is not read after this step.
GetQuestionsStore(p, try_raises) ==
  /\ pc[p] = "q_store"
  /\ daily_cache' =
       Put(daily_cache, KeyOf(p),
           [questions |-> IF try_raises THEN DefaultQuestions
                          ELSE extract_questions(text[p])])
  /\ found' = [found EXCEPT ![p] = IF try_raises THEN NotCounted
                                     ELSE Len(UsableQuestions(text[p]))]
  /\ pc' = [pc EXCEPT ![p] = "q_return"]
  /\ text' = [text EXCEPT ![p] = NoText]
  /\ UNCHANGED <<date, today, misses, calls, raced, last>>
  /\ UNCHANGED <<handler_vars, ui_vars>>

\* get_questions, line 85: answer with what the cache holds now
GetQuestionsReturn(p) ==
  /\ pc[p] = "q_return"
  /\ last' = [last EXCEPT !["get_questions"] =
                [day |-> today[p], key |-> KeyOf(p),
                 body |-> [questions |-> daily_cache[KeyOf(p)].questions]]]
  /\ pc' = [pc EXCEPT ![p] = "idle"]
  /\ today' = [today EXCEPT ![p] = None]
  /\ text' = [text EXCEPT ![p] = NoText]
  /\ found' = [found EXCEPT ![p] = NotCounted]
  /\ UNCHANGED <<date, daily_cache, misses, calls, raced>>
  /\ UNCHANGED <<handler_vars, ui_vars>>

\* get_scenario, lines 90-92
GetScenarioCheck(p) ==
  /\ pc[p] = "idle"
  /\ today' = [today EXCEPT ![p] = date]
  /\ text' = [text EXCEPT ![p] = NoText]
  /\ IF cache_hit(daily_cache, ScenarioKey(date))
     THEN /\ pc' = [pc EXCEPT ![p] = "s_return"]
          /\ UNCHANGED <<misses, raced>>
     ELSE /\ misses < MaxCalls
          /\ misses' = misses + 1
          /\ pc' = [pc EXCEPT ![p] = "s_generate"]
          /\ raced' = IF MissInFlight(p, ScenarioKey(date))
                      THEN raced \cup {ScenarioKey(date)}
                      ELSE raced
  /\ UNCHANGED <<found, date, daily_cache, calls, last>>
  /\ UNCHANGED <<handler_vars, ui_vars>>

\* get_scenario, line 97
GetScenarioGenerate(p, response) ==
  /\ pc[p] = "s_generate"
  /\ text' = [text EXCEPT ![p] = generate_with_gemini(response)]
  /\ calls' = [calls EXCEPT ![KeyOf(p)] = @ + 1]
  /\ pc' = [pc EXCEPT ![p] = "s_store"]
  /\ UNCHANGED <<found, date, daily_cache, today, misses, raced, last>>
  /\ UNCHANGED <<handler_vars, ui_vars>>

\* get_scenario, lines 98-101
GetScenarioStore(p) ==
  /\ pc[p] = "s_store"
  /\ daily_cache' =
       Put(daily_cache, KeyOf(p), [scenario |-> extract_scenario(text[p])])
  /\ pc' = [pc EXCEPT ![p] = "s_return"]
  /\ text' = [text EXCEPT ![p] = NoText]
  /\ UNCHANGED <<found, date, today, misses, calls, raced, last>>
  /\ UNCHANGED <<handler_vars, ui_vars>>

\* get_scenario, line 102
GetScenarioReturn(p) ==
  /\ pc[p] = "s_return"
  /\ last' = [last EXCEPT !["get_scenario"] =
                [day |-> today[p], key |-> KeyOf(p),
                 body |-> [scenario |-> daily_cache[KeyOf(p)].scenario]]]
  /\ pc' = [pc EXCEPT ![p] = "idle"]
  /\ today' = [today EXCEPT ![p] = None]
  /\ text' = [text EXCEPT ![p] = NoText]
  /\ found' = [found EXCEPT ![p] = NotCounted]
  /\ UNCHANGED <<date, daily_cache, misses, calls, raced>>
  /\ UNCHANGED <<handler_vars, ui_vars>>

\* Midnight: datetime.date.today() answers the next day from now on
NextDay ==
  /\ date < MaxDay
  /\ date' = date + 1
  /\ UNCHANGED <<daily_cache, pc, today, text, found, misses, calls, raced,
                 last>>
  /\ UNCHANGED <<handler_vars, ui_vars>>

(***************************************************************************)
(* Single requests on a fresh process: the inputs                          *)
(***************************************************************************)

\* Answers in one stigma_score request
MaxAnswers == 3

\* Lines in one numbered list of the provider
MaxLines == 4

\* Lines in one provider text answering ask_ai
MaxAskLines == 2

\* Sequences over S of length at most n
SeqsUpTo(S, n) == UNION {[1..k -> S] : k \in 0..n}

\* "\n".join(lines)
RECURSIVE JoinLines(_)
JoinLines(lines) ==
  IF lines = <<>> THEN <<>>
  ELSE IF Len(lines) = 1 THEN lines[1]
  ELSE lines[1] \o <<"\n">> \o JoinLines(Tail(lines))

Yes == <<"Y","e","s">>

Maybe == <<"M","a","y","b","e">>

No == <<"N","o">>

\* The answers submitted: the three radio options of the front end, and
\* "often", "ALWAYS", "sometimes", "yes " (trailing blank), "Agree"
AnswerTokens ==
  { Yes, Maybe, No, <<"o","f","t","e","n">>, <<"A","L","W","A","Y","S">>,
    <<"s","o","m","e","t","i","m","e","s">>, <<"y","e","s"," ">>,
    <<"A","g","r","e","e">> }

Foo == <<"F","o","o">>

Bar == <<"B","a","r">>

Baz == <<"B","a","z">>

\* "Is it ok?"
BodyPlain == <<"I","s"," ","i","t"," ","o","k","?">>

\* "Really?"
BodyOther == <<"R","e","a","l","l","y","?">>

\* "It is so."
BodyTrailingDot == <<"I","t"," ","i","s"," ","s","o",".">>

\* "9 to 5 ok?"
BodyLeadingDigit == <<"9"," ","t","o"," ","5"," ","o","k","?">>

\* The texts A, B, C, ... that follow the numbers of a numbered list
QuestionBodies ==
  {Foo, Bar, Baz, BodyPlain, BodyOther, BodyTrailingDot, BodyLeadingDigit}

Digits == <<"1","2","3","4","5","6","7","8","9">>

\* "1. A\n2. B\n3. C" for bodies <<A, B, C>>
NumberedList(bodies) ==
  JoinLines([i \in 1..Len(bodies) |-> <<Digits[i], ".", " ">> \o bodies[i]])

\* "REFLECTION: hi"
LineReflection ==
  <<"R","E","F","L","E","C","T","I","O","N",":"," ","h","i">>

\* "TIP: breathe"
LineTip ==
  <<"T","I","P",":"," ","b","r","e","a","t","h","e">>

\* "REFLECTION:"
LineBareReflection ==
  <<"R","E","F","L","E","C","T","I","O","N",":">>

\* "Reflection: a tip: relax"
LineReflectionWithTip ==
  <<"R","e","f","l","e","c","t","i","o","n",":"," ","a"," ","t","i",
    "p",":"," ","r","e","l","a","x">>

\* "Take care."
LinePlain ==
  <<"T","a","k","e"," ","c","a","r","e",".">>

\* "bad TIP: retry"
TipInReason ==
  <<"b","a","d"," ","T","I","P",":"," ","r","e","t","r","y">>

AskLines ==
  {LineReflection, LineTip, LineBareReflection, LineReflectionWithTip,
   LinePlain}

\* The outcomes of model.generate_content ask_ai is run against
AskResponses ==
  {TextResponse(JoinLines(ls)) : ls \in SeqsUpTo(AskLines, MaxAskLines)}
    \cup {CandidatesResponse(<<>>), RaisedResponse(QuotaReason),
          RaisedResponse(TipInReason)}

(***************************************************************************)
(* Single requests on a fresh process: the handlers                        *)
(***************************************************************************)

HandlerInit ==
  /\ h_op = "none"
  /\ h_in = None
  /\ h_out = None

\* POST /stigma_score with {"answers": answers}; an absent body or an absent
\* "answers" is the empty list
PostStigmaScore(answers) ==
  /\ h_op = "none"
  /\ h_op' = "stigma_score"
  /\ h_in' = answers
  /\ h_out' = stigma_score(answers)
  /\ UNCHANGED <<server_vars, ui_vars>>

\* POST /ask_ai. user_input, scenario and stigma_level only enter the prompt;
\* the provider's answer to it is `response`.
PostAskAI(response) ==
  /\ h_op = "none"
  /\ h_op' = "ask_ai"
  /\ h_in' = response
  /\ h_out' = ask_ai(generate_with_gemini(response))
  /\ UNCHANGED <<server_vars, ui_vars>>

\* GET /get_questions with no entry for the day, the provider answering
\* with the numbered list of `bodies`
GetQuestionsOnMiss(bodies) ==
  /\ h_op = "none"
  /\ h_op' = "get_questions"
  /\ h_in' = bodies
  /\ h_out' = [questions |->
                 extract_questions(
                   generate_with_gemini(TextResponse(NumberedList(bodies))))]
  /\ UNCHANGED <<server_vars, ui_vars>>

(***************************************************************************)
(* The front end: one Streamlit session (src/frontend/app.py)              *)
(***************************************************************************)

\* A key st.session_state does not hold
Absent == "<absent>"

Pages == {"landing", "questions", "roleplay", "reflection"}

\* The hard-coded scenario shown when GET /get_scenario fails:
\* "A friend says 'You're making a big deal of nothing' when you open up
\*  about stress. How would you reply?"
FrontendScenario ==
  <<"A"," ","f","r","i","e","n","d"," ","s","a","y","s"," ","'","Y",
    "o","u","'","r","e"," ","m","a","k","i","n","g"," ","a"," ","b",
    "i","g"," ","d","e","a","l"," ","o","f"," ","n","o","t","h","i",
    "n","g","'"," ","w","h","e","n"," ","y","o","u"," ","o","p","e",
    "n"," ","u","p"," ","a","b","o","u","t"," ","s","t","r","e","s",
    "s","."," ","H","o","w"," ","w","o","u","l","d"," ","y","o","u",
    " ","r","e","p","l","y","?">>

\* The options of each st.radio
RadioOptions == {Yes, Maybe, No}

\* One answer per question shown; the backend's list and the front end's
\* fall-back list both hold three questions
AnswerSheets == [1..NumQuestions -> RadioOptions]

\* What the user may have typed into reply_box: "", "  ", "ok"
Replies == { <<>>, <<" "," ">>, <<"o","k">> }

\* The scenarios GET /get_scenario may answer with
BackendScenarios ==
  {extract_scenario(generate_with_gemini(r)) : r \in ProviderResponses}

\* The bodies POST /ask_ai may answer with
BackendFeedback ==
  {ask_ai(generate_with_gemini(r)) :
     r \in {TextResponse(JoinLines(<<LineReflection, LineTip>>)),
            TextResponse(LineTip), RaisedResponse(QuotaReason)}}

\* The scenario of one run of the roleplay page: the backend's, or the
\* hard-coded one when the request fails
FetchedScenarios == BackendScenarios \cup {FrontendScenario}

UIInit ==
  /\ page = "landing"
  /\ ss_stigma_level = Absent
  /\ ss_answers = Absent
  /\ ss_scenario = Absent
  /\ ss_ai_reflection = Absent
  /\ ss_ai_tip = Absent
  /\ ui_event = [op |-> "start", ok |-> TRUE, blank |-> FALSE]

\* "Take the Challenge" on the landing page
TakeChallenge ==
  /\ page = "landing"
  /\ page' = "questions"
  /\ ui_event' = [op |-> "take_challenge", ok |-> TRUE, blank |-> FALSE]
  /\ UNCHANGED <<ss_stigma_level, ss_answers, ss_scenario, ss_ai_reflection,
                 ss_ai_tip>>
  /\ UNCHANGED <<server_vars, handler_vars>>

\* "Submit Answers" on the questions page; score_ok: POST /stigma_score
\* answered 2xx in time
SubmitAnswers(answers, score_ok) ==
  /\ page = "questions"
  /\ ss_stigma_level' = IF score_ok THEN stigma_score(answers).stigma_level
                        ELSE "Unknown"
  /\ ss_answers' = answers
  /\ page' = "roleplay"
  /\ ui_event' = [op |-> "submit_answers", ok |-> score_ok, blank |-> FALSE]
  /\ UNCHANGED <<ss_scenario, ss_ai_reflection, ss_ai_tip>>
  /\ UNCHANGED <<server_vars, handler_vars>>

\* A run of the roleplay page without a click (the user edits reply_box)
RoleplayRerun(scenario) ==
  /\ page = "roleplay"
  /\ ss_scenario' = scenario
  /\ ui_event' = [op |-> "rerun", ok |-> TRUE, blank |-> FALSE]
  /\ UNCHANGED <<page, ss_stigma_level, ss_answers, ss_ai_reflection,
                 ss_ai_tip>>
  /\ UNCHANGED <<server_vars, handler_vars>>

\* A faulty variant of GetAIFeedback: the page advances outside the try
\* block, whether or not POST /ask_ai succeeded
GetAIFeedbackAdvancing(scenario, user_input, ask_ok, data) ==
  /\ page = "roleplay"
  /\ ss_scenario' = scenario
  /\ LET blank == strip(user_input, Whitespace) = <<>>
     IN /\ ui_event' = [op |-> "get_ai_feedback", ok |-> ask_ok,
                        blank |-> blank]
        /\ IF ~blank /\ ask_ok
           THEN /\ ss_ai_reflection' = data.ai_reflection
                /\ ss_ai_tip' = data.ai_tip
           ELSE UNCHANGED <<ss_ai_reflection, ss_ai_tip>>
        /\ page' = IF blank THEN page ELSE "reflection"
  /\ UNCHANGED <<ss_stigma_level, ss_answers>>
  /\ UNCHANGED <<server_vars, handler_vars>>

\* "Get AI Feedback" on the roleplay page; ask_ok: POST /ask_ai answered
\* 2xx in time with the JSON body `data`
GetAIFeedback(scenario, user_input, ask_ok, data) ==
  /\ page = "roleplay"
  /\ ss_scenario' = scenario
  /\ LET blank == strip(user_input, Whitespace) = <<>>
     IN /\ ui_event' = [op |-> "get_ai_feedback", ok |-> ask_ok,
                        blank |-> blank]
        /\ IF ~blank /\ ask_ok
           THEN /\ ss_ai_reflection' = data.ai_reflection
                /\ ss_ai_tip' = data.ai_tip
                /\ page' = "reflection"
           ELSE UNCHANGED <<ss_ai_reflection, ss_ai_tip, page>>
  /\ UNCHANGED <<ss_stigma_level, ss_answers>>
  /\ UNCHANGED <<server_vars, handler_vars>>

\* "Restart" on the reflection page: reset_state
Restart ==
  /\ page = "reflection"
  /\ ss_stigma_level' = Absent
  /\ ss_answers' = Absent
  /\ ss_scenario' = Absent
  /\ ss_ai_reflection' = Absent
  /\ ss_ai_tip' = Absent
  /\ page' = "landing"
  /\ ui_event' = [op |-> "restart", ok |-> TRUE, blank |-> FALSE]
  /\ UNCHANGED <<server_vars, handler_vars>>

(***************************************************************************)
(* Specifications                                                          *)
(***************************************************************************)

Init == ServerInit /\ HandlerInit /\ UIInit

\* One step of the request thread p
WorkerStep(p) ==
  \/ GetQuestionsCheck(p)
  \/ \E response \in ProviderResponses : GetQuestionsGenerate(p, response)
  \/ \E try_raises \in BOOLEAN : GetQuestionsStore(p, try_raises)
  \/ GetQuestionsReturn(p)
  \/ GetScenarioCheck(p)
  \/ \E response \in ProviderResponses : GetScenarioGenerate(p, response)
  \/ GetScenarioStore(p)
  \/ GetScenarioReturn(p)

\* The threaded server: requests interleave at their steps
Next ==
  \/ \E p \in Workers : WorkerStep(p)
  \/ NextDay

Spec == Init /\ [][Next]_vars

\* One request at a time: a single thread serves every request
NextSeq ==
  \/ WorkerStep(1)
  \/ NextDay

SpecSeq == Init /\ [][NextSeq]_vars

\* Single requests, each on a fresh process
NextHandlers ==
  \/ \E answers \in SeqsUpTo(AnswerTokens, MaxAnswers) :
       PostStigmaScore(answers)
  \/ \E response \in AskResponses : PostAskAI(response)
  \/ \E bodies \in SeqsUpTo(QuestionBodies, MaxLines) :
       GetQuestionsOnMiss(bodies)

SpecHandlers == Init /\ [][NextHandlers]_vars

\* One front-end session
NextUI ==
  \/ TakeChallenge
  \/ \E answers \in AnswerSheets, score_ok \in BOOLEAN :
       SubmitAnswers(answers, score_ok)
  \/ \E scenario \in FetchedScenarios : RoleplayRerun(scenario)
  \/ \E scenario \in FetchedScenarios, user_input \in Replies,
        ask_ok \in BOOLEAN, data \in BackendFeedback :
       GetAIFeedback(scenario, user_input, ask_ok, data)
  \/ Restart

SpecUI == Init /\ [][NextUI]_vars

(***************************************************************************)
(* Properties                                                              *)
(***************************************************************************)

\* s begins with the characters of prefix
StartsWith(s, prefix) ==
  Len(s) >= Len(prefix) /\ SubSeq(s, 1, Len(prefix)) = prefix

\* part occurs in whole as a run of consecutive characters
Infix(part, whole) ==
  \E i \in 1..(Len(whole) - Len(part) + 1) :
     SubSeq(whole, i, i + Len(part) - 1) = part

\* Every response sent was read from the key of the date its request was
\* made on, and is the entry that key holds
C1_OwnDayEntry ==
  \A e \in Endpoints :
     last[e] # NoResponse =>
       /\ last[e].key[2] = last[e].day
       /\ last[e].key \in DOMAIN daily_cache
       /\ last[e].body = daily_cache[last[e].key]

\* A response of endpoint e is sent in this step
Responds(e) ==
  \E p \in Workers :
     /\ pc[p] = (IF e = "get_questions" THEN "q_return" ELSE "s_return")
     /\ pc'[p] = "idle"

\* A response for the same date as the endpoint's previous response has the
\* same body, and no provider call is made in between once one was made
C1_ConsecutiveSameDay ==
  \A e \in Endpoints :
     (Responds(e) /\ last[e] # NoResponse /\ last'[e].day = last[e].day) =>
        last'[e].body = last[e].body

\* C1: with one request at a time, two consecutive requests of one endpoint
\* made on the same calendar date return the same body and the provider is
\* called at most once for that date's key; and every response is read from
\* the key of the date the request was made on, never from another day's.
C1_SameDayOneCallNoStaleDay ==
  /\ [](C1_OwnDayEntry /\ \A k \in AllKeys : calls[k] <= 1)
  /\ [][C1_ConsecutiveSameDay]_vars

\* get_questions was answered on day 1 and then on day 2, and a further
\* request of day 2 found the entry and is about to answer from it: one
\* provider call was made for each day's key, and day 2's entry is not
\* day 1's.
C1_Witness ==
  /\ pc[1] = "q_return"
  /\ today[1] = 2
  /\ found[1] = NotCounted
  /\ last["get_questions"].day = 2
  /\ calls[QuestionsKey(1)] = 1
  /\ calls[QuestionsKey(2)] = 1
  /\ daily_cache[QuestionsKey(1)] # daily_cache[QuestionsKey(2)]

\* The text is the provider wrapper's sentinel "[AI error: ...]" or a line
\* cut from it
FromSentinel(s) == StartsWith(s, AIErrorPrefix)

\* C2: no cache entry and no response holds the sentinel "[AI error: ...]"
\* text as a question or as the scenario.
C2_SentinelNeverContent ==
  /\ \A k \in DOMAIN daily_cache :
        IF k[1] = ""
        THEN \A i \in 1..Len(daily_cache[k].questions) :
                ~FromSentinel(daily_cache[k].questions[i])
        ELSE ~FromSentinel(daily_cache[k].scenario)
  /\ last["get_questions"] # NoResponse =>
        \A i \in 1..Len(last["get_questions"].body.questions) :
           ~FromSentinel(last["get_questions"].body.questions[i])
  /\ last["get_scenario"] # NoResponse =>
        ~FromSentinel(last["get_scenario"].body.scenario)

\* The reference scoring rule: 2 for each answer that is, lower-cased, one
\* of the strong answers, 1 for each that is one of the mild answers
ReferenceScore(answers) ==
  2 * Cardinality({i \in 1..Len(answers) : lower(answers[i]) \in StrongAnswers})
    + Cardinality({i \in 1..Len(answers) : lower(answers[i]) \in MildAnswers})

ReferenceLevel(score) ==
  CASE score <= 2 -> "Low"
    [] score \in {3, 4} -> "Medium"
    [] score >= 5 -> "High"

\* C3: stigma_score answers with the reference score and its band, [] gives
\* (0, Low), ["Yes", "No", "Maybe"] gives (3, Medium), and every reordering
\* of the answers gives the same body.
C3_ScoreIsReference ==
  h_op = "stigma_score" =>
    /\ h_out.raw_score = ReferenceScore(h_in)
    /\ h_out.stigma_level = ReferenceLevel(ReferenceScore(h_in))
    /\ h_in = <<>> => h_out = [stigma_level |-> "Low", raw_score |-> 0]
    /\ h_in = <<Yes, No, Maybe>> =>
         h_out = [stigma_level |-> "Medium", raw_score |-> 3]
    /\ \A f \in Permutations(1..Len(h_in)) :
          stigma_score([i \in 1..Len(h_in) |-> h_in[f[i]]]) = h_out

\* ["Yes", "No", "Maybe"] scored (3, Medium)
C3_Witness ==
  /\ h_op = "stigma_score"
  /\ h_in = <<Yes, No, Maybe>>
  /\ h_out = [stigma_level |-> "Medium", raw_score |-> 3]

\* C4: when the provider call fails, ask_ai answers with the default
\* reflection, the default tip and the sentinel as raw_ai.
C4_FailureGivesDefaults ==
  (h_op = "ask_ai" /\ h_in.raises) =>
    /\ h_out.ai_reflection = DefaultReflection
    /\ h_out.ai_tip = DefaultTip
    /\ h_out.raw_ai = AIError(h_in.reason)

\* C5 as claimed: the numbered list "1. A\n2. B\n3. C" yields [A, B, C].
C5_NumberedListYieldsBodies ==
  (h_op = "get_questions" /\ Len(h_in) = 3) => h_out.questions = h_in

\* A body the extraction leaves as it is: longer than 5 characters, with no
\* marker character at either end
CleanBody(b) ==
  /\ Len(b) > 5
  /\ b[1] \notin MarkerChars
  /\ b[Len(b)] \notin MarkerChars

\* C5 as amended: markers are removed at both ends of a line and only lines
\* then longer than 5 characters count. A numbered list whose first three
\* bodies are longer than 5 characters and neither begin nor end with a
\* marker character yields those three bodies; any other result that is not
\* the default holds three texts longer than 5 characters, free of markers
\* at both ends, each cut out of a line of its own, in the order of the
\* lines; and "1. Foo\n2. Bar\n3. Baz" yields the default.
C5_MarkersStrippedBothEnds ==
  h_op = "get_questions" =>
    /\ (Len(h_in) >= 3 /\ \A i \in 1..3 : CleanBody(h_in[i])) =>
          h_out.questions = SubSeq(h_in, 1, 3)
    /\ h_out.questions # DefaultQuestions =>
          /\ Len(h_out.questions) = 3
          /\ \A i \in 1..3 : CleanBody(h_out.questions[i])
          /\ \E a, b, c \in 1..Len(h_in) :
                /\ a < b /\ b < c
                /\ Infix(h_out.questions[1], h_in[a])
                /\ Infix(h_out.questions[2], h_in[b])
                /\ Infix(h_out.questions[3], h_in[c])
    /\ h_in = <<Foo, Bar, Baz>> => h_out.questions = DefaultQuestions

\* "1. Is it ok?\n2. It is so.\n3. 9 to 5 ok?" yields
\* ["Is it ok?", "It is so", "to 5 ok?"]
C5_Witness ==
  /\ h_op = "get_questions"
  /\ h_in = <<BodyPlain, BodyTrailingDot, BodyLeadingDigit>>
  /\ h_out.questions =
       << BodyPlain, <<"I","t"," ","i","s"," ","s","o">>,
          <<"t","o"," ","5"," ","o","k","?">> >>

\* The lines of the text that, markers removed at both ends, are longer than
\* 5 characters
UsableLineCount(t) ==
  Cardinality({i \in 1..Len(splitlines(t)) :
                 /\ \E j \in 1..Len(splitlines(t)[i]) :
                       splitlines(t)[i][j] \notin Whitespace
                 /\ Len(strip(splitlines(t)[i], MarkerChars)) > 5})

\* Every entry under a bare-date key and every get_questions response holds
\* exactly 3 questions
C6_ThreeQuestions ==
  /\ \A k \in DOMAIN daily_cache :
        k[1] = "" => Len(daily_cache[k].questions) = 3
  /\ last["get_questions"] # NoResponse =>
        Len(last["get_questions"].body.questions) = 3

\* A store step of get_questions whose provider text holds fewer than 3
\* usable lines stores the default questions
C6_PartialDiscarded ==
  \A p \in Workers :
     (/\ pc[p] = "q_store"
      /\ pc'[p] = "q_return"
      /\ UsableLineCount(text[p]) < 3)
       => daily_cache'[QuestionsKey(today[p])] = [questions |-> DefaultQuestions]

C7_EntriesImmutable ==
  [][\A k \in DOMAIN daily_cache :
        k \in DOMAIN daily_cache' /\ daily_cache'[k] = daily_cache[k]]_vars

\* The value the labelled line of the text gives a field: the text after
\* the first colon of the first line that begins with the label, blanks
\* removed at both ends; the default when no line begins with the label
LineLocalField(t, label, default) ==
  LET lines == splitlines(t)
      labelled == {i \in 1..Len(lines) : LabelColonAt(lines[i], 1, label) # 0}
  IN IF labelled = {} THEN default
     ELSE LET i == CHOOSE i \in labelled : \A j \in labelled : i <= j
              c == LabelColonAt(lines[i], 1, label)
          IN strip(SubSeq(lines[i], c + 1, Len(lines[i])), Whitespace)

\* C8: ai_reflection is what the line labelled REFLECTION gives and ai_tip
\* what the line labelled TIP gives, each its own default when its label is
\* absent; no field takes its value from another line than its label's.
C8_FieldsLineLocal ==
  (h_op = "ask_ai" /\ ~h_in.raises) =>
    /\ h_out.ai_reflection =
         LineLocalField(h_out.raw_ai, ReflectionLabel, DefaultReflection)
    /\ h_out.ai_tip = LineLocalField(h_out.raw_ai, TipLabel, DefaultTip)

\* C9: the provider is called more than once for a key only when a miss of
\* that key was observed while another miss of it was in flight.
C9_DuplicateCallsOnlyByRace ==
  \A k \in AllKeys : calls[k] > 1 => k \in raced

\* Two requests observed the miss of one key and both called the provider
C9_Witness ==
  \E k \in AllKeys : calls[k] >= 2 /\ k \in raced

\* The page changes of the session walker
PageEdges ==
  { <<"landing", "questions">>, <<"questions", "roleplay">>,
    <<"roleplay", "reflection">>, <<"reflection", "landing">> }

C10_PageKnown == page \in Pages

C10_Step ==
  /\ page' # page => <<page, page'>> \in PageEdges
  /\ page' = "landing" => ui_event'.op = "restart" /\ page = "reflection"
  /\ (ui_event'.op = "submit_answers" /\ ~ui_event'.ok) =>
        /\ page = "questions" /\ page' = "roleplay"
        /\ ss_stigma_level' = "Unknown"
  /\ (page = "roleplay" /\ page' = "reflection") =>
        /\ ui_event'.op = "get_ai_feedback"
        /\ ui_event'.ok /\ ~ui_event'.blank
  /\ (ui_event'.op = "get_ai_feedback"
        /\ (ui_event'.blank \/ ~ui_event'.ok)) =>
        page = "roleplay" /\ page' = "roleplay"

\* C10: page is always one of the four pages and changes only along
\* landing -> questions -> roleplay -> reflection -> landing, the last only
\* by Restart; a failed /stigma_score call still moves questions -> roleplay
\* with stigma_level "Unknown"; roleplay -> reflection needs a non-blank
\* reply and a successful /ask_ai call, and a blank reply or a failed call
\* leaves the page at roleplay.
C10_PageFlow == []C10_PageKnown /\ [][C10_Step]_vars

\* After a failed /stigma_score call the session is on roleplay with level
\* "Unknown", and a failed /ask_ai call for a non-blank reply left it there
C10_Witness ==
  /\ page = "roleplay"
  /\ ss_stigma_level = "Unknown"
  /\ ui_event = [op |-> "get_ai_feedback", ok |-> FALSE, blank |-> FALSE]

====
